---- MODULE Spec2Model ----
(***************************************************************************)
(* QuizMaster: the AppContent navigation state machine, the QuizInterface  *)
(* quiz session (load, countdown, answers, navigation, submission) and the *)
(* QuizResults loader, over the quizzes / questions / user_quiz_attempts   *)
(* tables of the backend.                                                  *)
(*                                                                         *)
(* One action is one event-loop task: a user event, a timer callback or    *)
(* the continuation of an awaited backend call, together with the render   *)
(* and the effects it causes (React 18 batches the state updates of one    *)
(* task into one render, and the effects of that render run before the     *)
(* next task).  State of an unmounted component is discarded: its          *)
(* variables are reset to the useState initial values.                     *)
(***************************************************************************)
EXTENDS Integers, Sequences, FiniteSets, TLC

\* ---------------------------------------------------------------- bounds
NumQuestions == 2
MaxSessions == 1
MaxClock == 2
MaxRetries == 2
MaxAttempts == 2
MaxTotal == 40

\* ------------------------------------------------------------- sentinels
Null == "null"
NoUser == "none"
Undefined == 0 - 1
EmptyId == ""

\* ------------------------------------------------------- backend contents
Users == {"u1"}

OptionKeys == <<"A", "B", "C", "D">>

AnswerChoices == {"A", "B"}

SecondsPerMinute == 60

\* Date.now() is counted in steps of ClockStepMs milliseconds
ClockStepMs == 500

MsPerSecond == 1000

UndefinedAnswer == "undefined"

QuizTable ==
  { [id |-> "quizA", title |-> "Quiz A", duration_minutes |-> 1,
     is_active |-> TRUE, created_at |-> 1],
    [id |-> "quizB", title |-> "Quiz B", duration_minutes |-> 1,
     is_active |-> TRUE, created_at |-> 2] }

QuizIds == { r.id : r \in QuizTable }

QuizRow(quizId) == CHOOSE r \in QuizTable : r.id = quizId

QuestionTable ==
  { [id |-> i, quiz_id |-> "quizA",
     correct_answer |-> OptionKeys[((i - 1) % 4) + 1],
     question_order |-> NumQuestions + 1 - i] : i \in 1..NumQuestions }

RECURSIVE OrderByQuestionOrder(_)
OrderByQuestionOrder(rows) ==
  IF rows = {} THEN <<>>
  ELSE LET first == CHOOSE r \in rows :
                      \A s \in rows : r.question_order <= s.question_order
       IN <<first>> \o OrderByQuestionOrder(rows \ {first})

SelectQuestions(quizId) ==
  OrderByQuestionOrder({ r \in QuestionTable : r.quiz_id = quizId })

\* ------------------------------------------------------------------ state
VARIABLES
  user, authLoading,                      \* AuthContext
  appState, quizData,                     \* AppContent
  sid, quiz, questions, currentQuestionIndex, answers, timeLeft,
  loading, submitting, startTime, fetchPc, \* QuizInterface instance
  now,                                    \* Date.now(), in clock steps
  pending,                                \* inserts awaiting their response (a sequence)
  attempts,                               \* table user_quiz_attempts
  log,                                    \* console.error messages
  rLoading, rPc, quizTitle, rQuestions, userAnswers, \* QuizResults instance
  autoSubmitCalls, lastSelect, insertedBy, \* history
  quizzes, userStats, quizAttempts, dLoading, dError,
  connectionStatus,                       \* Dashboard instance
  initRuns,                               \* initializeDashboard calls in flight
  runCount, calls, failedProbes,          \* history of the Dashboard's calls
  view                                    \* what QuizResults displays

authVars == <<user, authLoading>>
appVars == <<appState, quizData>>
sessionVars == <<quiz, questions, currentQuestionIndex, answers, timeLeft,
                 loading, submitting, startTime, fetchPc>>
resultVars == <<rLoading, rPc, quizTitle, rQuestions, userAnswers>>
histVars == <<autoSubmitCalls, lastSelect, insertedBy>>
dashVars == <<quizzes, userStats, quizAttempts, dLoading, dError,
              connectionStatus, initRuns, runCount, calls, failedProbes>>
viewVars == <<view>>
vars == <<user, authLoading, appState, quizData, sid, quiz, questions,
          currentQuestionIndex, answers, timeLeft, loading, submitting,
          startTime, fetchPc, now, pending, attempts, log,
          rLoading, rPc, quizTitle, rQuestions, userAnswers,
          autoSubmitCalls, lastSelect, insertedBy,
          quizzes, userStats, quizAttempts, dLoading, dError,
          connectionStatus, initRuns, runCount, calls, failedProbes, view>>

\* --------------------------------------------------------- AppContent render
\* the render without its `if (!user)` return
Rendered_noUserGate(a, l, u) == IF l THEN "spinner" ELSE a

Rendered(a, l, u) == IF l THEN "spinner"
                     ELSE IF u = NoUser THEN "auth"
                     ELSE a

QuizMounted == Rendered(appState, authLoading, user) = "quiz"

\* appState === 'results' && quizData.score !== undefined
ShowsResults(a, l, u, qd) == Rendered(a, l, u) = "results" /\ qd.score # Undefined

ResultsMounted == ShowsResults(appState, authLoading, user, quizData)

\* ------------------------------------------------------ QuizInterface render
\* the guard without its `questions.length === 0` operand
QuizScreen_noEmptyCheck ==
  IF loading THEN "spinner"
  ELSE IF quiz = Null THEN "notfound"
  ELSE "active"

QuizScreen ==
  IF loading THEN "spinner"
  ELSE IF quiz = Null \/ Len(questions) = 0 THEN "notfound"
  ELSE "active"

Active == QuizMounted /\ QuizScreen = "active"

\* questions[currentQuestionIndex] is a question: it is undefined past the
\* end of the list
CurrentQuestionDefined == currentQuestionIndex + 1 \in DOMAIN questions

\* the render that reads currentQuestion.question_text, .option_a .. .id
RendersQuestion == QuizMounted /\ QuizScreen = "active"

\* ------------------------------------------------------------ JS helpers
Max(a, b) == IF a >= b THEN a ELSE b

Min(a, b) == IF a <= b THEN a ELSE b

\* { ...obj, [key]: value }
Put(obj, key, value) ==
  [k \in (DOMAIN obj) \cup {key} |-> IF k = key THEN value ELSE obj[k]]

\* obj[key], undefined when the key is absent
Get(obj, key) == IF key \in DOMAIN obj THEN obj[key] ELSE UndefinedAnswer

RemoveAt(seq, i) == SubSeq(seq, 1, i - 1) \o SubSeq(seq, i + 1, Len(seq))

\* ------------------------------------------------- JS numbers (IEEE 754)
\* A positive finite double is [m, e]: m its 53 significand bits as the
\* leading bit 1 followed by LimbCount limbs of LimbBits bits, standing for
\* (m as an integer) * 2^(e - 52), a value in [2^e, 2^(e+1)).  Zero has no
\* limbs.  Integers below 2^31 are doubles without rounding, so only the
\* results of / and * are kept in this form.  Divisors stay below 2^18 and
\* factors below 2^17, rounded values below 2^26.
LimbBits == 13

LimbCount == 4

LimbBase == 2 ^ LimbBits

NaN == 0 - 2

PosInfinity == 0 - 3

JsZero == [m |-> <<>>, e |-> 0]

Compare(a, b) == IF a < b THEN 0 - 1 ELSE IF a = b THEN 0 ELSE 1

\* m + 1, from limb i up; a carry out of the leading bit gives 2^53, the
\* significand 1 0..0 of the next exponent
RECURSIVE IncLimbs(_, _)
IncLimbs(m, i) ==
  IF i = 1 THEN [m |-> [k \in 1..Len(m) |-> IF k = 1 THEN 1 ELSE 0],
                 carry |-> 1]
  ELSE IF m[i] + 1 < LimbBase
       THEN [m |-> [m EXCEPT ![i] = m[i] + 1], carry |-> 0]
       ELSE IncLimbs([m EXCEPT ![i] = 0], i - 1)

\* round to nearest, ties to even: cmp is the dropped part against half a
\* unit in the last place (-1 below, 0 equal, 1 above)
RoundNearestEven(m, e, cmp) ==
  IF cmp > 0 \/ (cmp = 0 /\ m[Len(m)] % 2 = 1)
  THEN LET r == IncLimbs(m, Len(m)) IN [m |-> r.m, e |-> e + r.carry]
  ELSE [m |-> m, e |-> e]

\* the next limbs of the binary expansion of r / den, for 0 <= r < den
RECURSIVE DivLimbs(_, _, _, _)
DivLimbs(r, den, n, acc) ==
  IF n = 0 THEN [m |-> acc, rem |-> r]
  ELSE DivLimbs((r * LimbBase) % den, den, n - 1,
                Append(acc, (r * LimbBase) \div den))

\* scale num / den into [1, 2): num / den = (n / d) * 2^e
RECURSIVE Normalise(_, _, _)
Normalise(num, den, e) ==
  IF num < den THEN Normalise(2 * num, den, e - 1)
  ELSE IF num >= 2 * den THEN Normalise(num, 2 * den, e + 1)
  ELSE [n |-> num, d |-> den, e |-> e]

\* num / den for integers num >= 0, den >= 1
JsDivide(num, den) ==
  IF num = 0 THEN JsZero
  ELSE LET s == Normalise(num, den, 0)
           q == DivLimbs(s.n - s.d, s.d, LimbCount, <<1>>)
       IN RoundNearestEven(q.m, s.e, Compare(2 * q.rem, s.d))

\* m * c as limbs, the leading one unbounded, from limb i up
RECURSIVE MulLimbs(_, _, _, _)
MulLimbs(m, c, i, carry) ==
  IF i = 1 THEN <<m[1] * c + carry>>
  ELSE Append(MulLimbs(m, c, i - 1, (m[i] * c + carry) \div LimbBase),
              (m[i] * c + carry) % LimbBase)

\* the number of bits of n >= 1, less one
RECURSIVE Log2(_)
Log2(n) == IF n < 2 THEN 0 ELSE 1 + Log2(n \div 2)

\* p shifted right by s bits, from limb i down: the limbs and the bits
\* shifted out
RECURSIVE ShiftRight(_, _, _, _, _)
ShiftRight(p, s, i, carry, acc) ==
  IF i > Len(p) THEN [m |-> acc, dropped |-> carry]
  ELSE LET v == carry * (IF i = 1 THEN 1 ELSE LimbBase) + p[i]
       IN ShiftRight(p, s, i + 1, v % (2 ^ s), Append(acc, v \div (2 ^ s)))

\* x * c for a double x and an integer c >= 1
JsTimes(x, c) ==
  IF x.m = <<>> THEN JsZero
  ELSE LET p == MulLimbs(x.m, c, Len(x.m), 0)
           s == Log2(p[1])
           r == ShiftRight(p, s, 1, 0, <<>>)
           cmp == IF s = 0 THEN 0 - 1 ELSE Compare(2 * r.dropped, 2 ^ s)
       IN RoundNearestEven(r.m, x.e + s, cmp)

\* Math.round(x): the nearest integer, a fraction of one half going up
MathRound(x) ==
  IF x.m = <<>> \/ x.e < 0 - 1 THEN 0
  ELSE IF x.e = 0 - 1 THEN 1
  ELSE LET h == x.m[2] * LimbBase + x.m[3]
           hBits == 2 * LimbBits
       IN (2 ^ x.e) + (h \div (2 ^ (hBits - x.e)))
          + ((h \div (2 ^ (hBits - 1 - x.e))) % 2)

\* Math.round((num / den) * 100)
Percent(num, den) ==
  IF den = 0 THEN (IF num = 0 THEN NaN ELSE PosInfinity)
  ELSE MathRound(JsTimes(JsDivide(num, den), 100))

\* Math.max(...values) of a non-empty list: NaN if any value is NaN
MathMax(values) ==
  IF \E i \in 1..Len(values) : values[i] = NaN THEN NaN
  ELSE IF \E i \in 1..Len(values) : values[i] = PosInfinity THEN PosInfinity
  ELSE CHOOSE v \in { values[i] : i \in 1..Len(values) } :
         \A i \in 1..Len(values) : values[i] <= v

\* ------------------------------------------------- QuizInterface: scoring
\* the forEach of handleSubmit: score and userAnswers after questions i..
\* userAnswers[question.id] = userAnswer, without the `|| ''`
StoredAnswer_raw(userAnswer) == userAnswer

\* userAnswer || ''
StoredAnswer(userAnswer) ==
  IF userAnswer = UndefinedAnswer \/ userAnswer = "" THEN "" ELSE userAnswer

\* counts every answered question
IsCorrect_answered(userAnswer, question) == userAnswer # UndefinedAnswer

\* userAnswer === question.correct_answer
IsCorrect(userAnswer, question) == userAnswer = question.correct_answer

RECURSIVE ScoreLoop(_, _, _, _, _)
ScoreLoop(qs, ans, i, score, acc) ==
  IF i > Len(qs) THEN [score |-> score, userAnswers |-> acc]
  ELSE LET question == qs[i]
           userAnswer == Get(ans, question.id)
       IN ScoreLoop(qs, ans, i + 1,
                    IF IsCorrect(userAnswer, question)
                    THEN score + 1 ELSE score,
                    Put(acc, question.id, StoredAnswer(userAnswer)))

\* the remaining countdown in place of the elapsed time
TimeTaken_remaining(t, start) == timeLeft

\* Math.floor((Date.now() - startTime) / 1000)
TimeTaken(t, start) == ((t - start) * ClockStepMs) \div MsPerSecond

AttemptRow(qs, ans) ==
  LET r == ScoreLoop(qs, ans, 1, 0, <<>>)
  IN [user_id |-> user,
      quiz_id |-> quizData.quizId,
      score |-> r.score,
      total_questions |-> Len(qs),
      time_taken_seconds |-> TimeTaken(now, startTime),
      answers |-> r.userAnswers]

\* created_at DEFAULT now(): the time of the insert, later than the time of
\* every stored row
NextCreatedAt(table) ==
  1 + (IF table = <<>> THEN 0
       ELSE CHOOSE t \in { table[k].created_at : k \in 1..Len(table) } :
              \A k \in 1..Len(table) : table[k].created_at <= t)

DbNow == NextCreatedAt(attempts)

\* the row stored for an insert
Persisted(row, createdAt) ==
  [user_id |-> row.user_id, quiz_id |-> row.quiz_id, score |-> row.score,
   total_questions |-> row.total_questions,
   time_taken_seconds |-> row.time_taken_seconds, answers |-> row.answers,
   created_at |-> createdAt]

\* the early return without its `submitting` operand
SubmitBlocked_noGuard(sub, qz, u) == qz = Null \/ u = NoUser

\* the `submitting || !quiz || !user` early return
SubmitBlocked(sub, qz, u) == sub \/ qz = Null \/ u = NoUser

\* handleSubmit up to its await, called in a render whose state is
\* (sub, qz, qs, ans)
HandleSubmit(auto, sub, qz, qs, ans) ==
  IF SubmitBlocked(sub, qz, user)
  THEN /\ submitting' = sub
       /\ UNCHANGED pending
  ELSE /\ submitting' = TRUE
       /\ pending' = Append(pending, [sid |-> sid, auto |-> auto,
                                      snapshot |-> ans,
                                      row |-> AttemptRow(qs, ans)])

\* the branch taken one second early
TimerExpired_early(t, qz) == t <= 1 /\ qz # Null

\* the branch without its `&& quiz` operand
TimerExpired_noQuiz(t, qz) == t = 0

\* the timer effect's `timeLeft === 0 && quiz` branch
TimerExpired(t, qz) == t = 0 /\ qz # Null

\* the timer effect, run after a render in which timeLeft or quiz changed
TimerEffect(t, sub, qz, qs, ans) ==
  IF TimerExpired(t, qz)
  THEN /\ HandleSubmit(TRUE, sub, qz, qs, ans)
       /\ autoSubmitCalls' = autoSubmitCalls + 1
  ELSE /\ submitting' = sub
       /\ UNCHANGED <<pending, autoSubmitCalls>>

\* ------------------------------------------- QuizInterface: mount / unmount
MountQuiz ==
  /\ sid' = sid + 1
  /\ quiz' = Null
  /\ questions' = <<>>
  /\ currentQuestionIndex' = 0
  /\ answers' = <<>>
  /\ timeLeft' = 0
  /\ loading' = TRUE
  /\ submitting' = FALSE
  /\ startTime' = now
  /\ fetchPc' = "quiz"
  \* the timer effect of the first render: timeLeft = 0 and quiz = null, and
  \* a handleSubmit called there returns at its `!quiz` check
  /\ autoSubmitCalls' = IF TimerExpired(timeLeft', quiz') THEN 1 ELSE 0
  /\ lastSelect' = <<>>

UnmountQuiz ==
  /\ sid' = sid
  /\ quiz' = Null
  /\ questions' = <<>>
  /\ currentQuestionIndex' = 0
  /\ answers' = <<>>
  /\ timeLeft' = 0
  /\ loading' = TRUE
  /\ submitting' = FALSE
  /\ startTime' = 0
  /\ fetchPc' = "none"
  /\ autoSubmitCalls' = 0
  /\ lastSelect' = <<>>

\* ---------------------------------------------- QuizResults: mount / unmount
MountResults ==
  /\ rLoading' = TRUE
  /\ rPc' = "title"
  /\ quizTitle' = ""
  /\ rQuestions' = <<>>
  /\ userAnswers' = <<>>

UnmountResults ==
  /\ rLoading' = TRUE
  /\ rPc' = "none"
  /\ quizTitle' = ""
  /\ rQuestions' = <<>>
  /\ userAnswers' = <<>>

\* the components mounted and unmounted by a render of AppContent
Rerender ==
  LET was == QuizMounted
      will == Rendered(appState', authLoading', user') = "quiz"
      rwas == ResultsMounted
      rwill == ShowsResults(appState', authLoading', user', quizData')
  IN /\ will /\ ~was => sid < MaxSessions
     /\ IF will /\ ~was THEN MountQuiz
        ELSE IF was /\ ~will THEN UnmountQuiz
        ELSE UNCHANGED <<sid, sessionVars, autoSubmitCalls, lastSelect>>
     /\ IF rwill /\ ~rwas THEN MountResults
        ELSE IF rwas /\ ~rwill THEN UnmountResults
        ELSE UNCHANGED resultVars

\* ------------------------------------------------------------ AuthContext
AuthResolved(u) ==
  /\ authLoading
  /\ authLoading' = FALSE
  /\ user' = u
  /\ UNCHANGED <<appVars, now, pending, attempts, log, insertedBy>>
  /\ Rerender
  /\ UNCHANGED <<dashVars, viewVars>>

\* signOut(): the session ends and every subscribed component re-renders
SignOut ==
  /\ ~authLoading /\ user # NoUser
  /\ user' = NoUser
  /\ UNCHANGED <<authLoading, appVars, now, pending, attempts, log, insertedBy>>
  /\ Rerender
  /\ UNCHANGED <<dashVars, viewVars>>

\* signIn(email, password) succeeded
SignIn(u) ==
  /\ ~authLoading /\ user = NoUser
  /\ user' = u
  /\ UNCHANGED <<authLoading, appVars, now, pending, attempts, log, insertedBy>>
  /\ Rerender
  /\ UNCHANGED <<dashVars, viewVars>>

\* ------------------------------------------------------------- AppContent
NoQuizData == [quizId |-> EmptyId, score |-> Undefined,
               totalQuestions |-> Undefined, timeTaken |-> Undefined]

HandleStartQuiz(quizId) ==
  /\ Rendered(appState, authLoading, user) = "dashboard"
  /\ quizData' = [NoQuizData EXCEPT !.quizId = quizId]
  /\ appState' = "quiz"
  /\ UNCHANGED <<authVars, now, pending, attempts, log, insertedBy>>
  /\ Rerender
  /\ UNCHANGED <<dashVars, viewVars>>

\* setQuizData(prev => ({...prev, score, totalQuestions, timeTaken}))
HandleQuizComplete(prev, score, totalQuestions, timeTaken) ==
  [prev EXCEPT !.score = score, !.totalQuestions = totalQuestions,
               !.timeTaken = timeTaken]

HandleBackToDashboard ==
  /\ \/ QuizMounted /\ QuizScreen = "notfound"
     \/ Rendered(appState, authLoading, user) = "results"
        /\ quizData.score # Undefined
  /\ appState' = "dashboard"
  /\ quizData' = NoQuizData
  /\ UNCHANGED <<authVars, now, pending, attempts, log, insertedBy>>
  /\ Rerender
  /\ UNCHANGED <<dashVars, viewVars>>

\* ----------------------------------------------- QuizInterface: fetchQuizData
\* setQuiz and setTimeLeft moved before the questions fetch
FetchQuizOk_early ==
  /\ QuizMounted /\ fetchPc = "quiz"
  /\ quizData.quizId \in QuizIds
  /\ fetchPc' = "questions"
  /\ quiz' = quizData.quizId
  /\ timeLeft' = QuizRow(quizData.quizId).duration_minutes * SecondsPerMinute
  /\ UNCHANGED <<authVars, appVars, sid, questions, currentQuestionIndex,
                 answers, loading, submitting, startTime, now,
                 pending, attempts, log, resultVars, histVars>>
  /\ UNCHANGED <<dashVars, viewVars>>

FetchQuizOk ==
  /\ QuizMounted /\ fetchPc = "quiz"
  /\ quizData.quizId \in QuizIds
  /\ fetchPc' = "questions"
  /\ UNCHANGED <<authVars, appVars, sid, quiz, questions, currentQuestionIndex,
                 answers, timeLeft, loading, submitting, startTime, now,
                 pending, attempts, log, resultVars, histVars>>
  /\ UNCHANGED <<dashVars, viewVars>>

FetchQuizError ==
  /\ QuizMounted /\ fetchPc = "quiz"
  /\ fetchPc' = "failed-quiz"
  /\ log' = log \cup {"Error fetching quiz data:"}
  /\ loading' = FALSE
  /\ UNCHANGED <<authVars, appVars, sid, quiz, questions, currentQuestionIndex,
                 answers, timeLeft, submitting, startTime, now,
                 pending, attempts, resultVars, histVars>>
  /\ UNCHANGED <<dashVars, viewVars>>

FetchQuestionsOk ==
  /\ QuizMounted /\ fetchPc = "questions"
  /\ fetchPc' = "ok"
  /\ quiz' = quizData.quizId
  /\ questions' = SelectQuestions(quizData.quizId)
  /\ timeLeft' = QuizRow(quizData.quizId).duration_minutes * SecondsPerMinute
  /\ loading' = FALSE
  /\ TimerEffect(timeLeft', submitting, quiz', questions', answers)
  /\ UNCHANGED <<authVars, appVars, sid, currentQuestionIndex, answers,
                 startTime, now, attempts, log, resultVars, lastSelect,
                 insertedBy>>
  /\ UNCHANGED <<dashVars, viewVars>>

FetchQuestionsError ==
  /\ QuizMounted /\ fetchPc = "questions"
  /\ fetchPc' = "failed-questions"
  /\ log' = log \cup {"Error fetching quiz data:"}
  /\ loading' = FALSE
  /\ UNCHANGED <<authVars, appVars, sid, quiz, questions, currentQuestionIndex,
                 answers, timeLeft, submitting, startTime, now,
                 pending, attempts, resultVars, histVars>>
  /\ UNCHANGED <<dashVars, viewVars>>

\* ------------------------------------------------- QuizInterface: countdown
Tick ==
  /\ QuizMounted /\ timeLeft > 0
  /\ timeLeft' = timeLeft - 1
  /\ TimerEffect(timeLeft', submitting, quiz, questions, answers)
  /\ UNCHANGED <<authVars, appVars, sid, quiz, questions, currentQuestionIndex,
                 answers, loading, startTime, fetchPc, now, attempts, log,
                 resultVars, lastSelect, insertedBy>>
  /\ UNCHANGED <<dashVars, viewVars>>

\* --------------------------------------------------- QuizInterface: answers
\* setAnswers without the spread of prev
HandleAnswerSelect_noSpread(prev, questionId, answer) ==
  [k \in {questionId} |-> answer]

HandleAnswerSelect(prev, questionId, answer) == Put(prev, questionId, answer)

AnswerSelect(answer) ==
  /\ Active
  /\ LET currentQuestion == questions[currentQuestionIndex + 1]
     IN /\ answers' = HandleAnswerSelect(answers, currentQuestion.id, answer)
        /\ lastSelect' = <<currentQuestion.id, answer,
                            Get(answers, currentQuestion.id)>>
  /\ UNCHANGED <<authVars, appVars, sid, quiz, questions, currentQuestionIndex,
                 timeLeft, loading, submitting, startTime, fetchPc, now,
                 pending, attempts, log, resultVars, autoSubmitCalls,
                 insertedBy>>
  /\ UNCHANGED <<dashVars, viewVars>>

\* ------------------------------------------------ QuizInterface: navigation
PreviousIndex(i) == Max(0, i - 1)

NextIndex(i, n) == Min(n - 1, i + 1)

\* the number button passing its label index + 1
JumpTargets_label(n) == 1..n

JumpTargets(n) == 0..(n - 1)

\* the last question shows Submit Quiz in place of Next
ShowsSubmit(i, n) == i = n - 1

Navigate(index) ==
  /\ currentQuestionIndex' = index
  /\ UNCHANGED <<authVars, appVars, sid, quiz, questions, answers,
                 timeLeft, loading, submitting, startTime, fetchPc, now,
                 pending, attempts, log, resultVars, histVars>>
  /\ UNCHANGED <<dashVars, viewVars>>

Previous ==
  /\ Active
  /\ currentQuestionIndex # 0
  /\ Navigate(PreviousIndex(currentQuestionIndex))

NextQuestion ==
  /\ Active
  /\ ~ShowsSubmit(currentQuestionIndex, Len(questions))
  /\ Navigate(NextIndex(currentQuestionIndex, Len(questions)))

Jump(index) ==
  /\ Active
  /\ index \in JumpTargets(Len(questions))
  /\ Navigate(index)

\* ------------------------------------------------ QuizInterface: submission
ManualSubmit ==
  /\ Active
  /\ ShowsSubmit(currentQuestionIndex, Len(questions))
  /\ ~submitting
  /\ HandleSubmit(FALSE, submitting, quiz, questions, answers)
  /\ UNCHANGED <<authVars, appVars, sid, quiz, questions, currentQuestionIndex,
                 answers, timeLeft, loading, startTime, fetchPc, now,
                 attempts, log, resultVars, histVars>>
  /\ UNCHANGED <<dashVars, viewVars>>

\* handleSubmit without its finally block
SubmittingAfterFinally_none(p) == submitting

\* finally { setSubmitting(false) }: a no-op on an unmounted instance
SubmittingAfterFinally(p) ==
  IF QuizMounted /\ p.sid = sid THEN FALSE ELSE submitting

\* the insert of pending[i] succeeded: onComplete, then the finally block
InsertOk(i) ==
  /\ i \in 1..Len(pending)
  /\ LET p == pending[i]
     IN /\ attempts' = Append(attempts, Persisted(p.row, DbNow))
        /\ insertedBy' = Append(insertedBy, [sid |-> p.sid, auto |-> p.auto,
                                              snapshot |-> p.snapshot])
        /\ quizData' = HandleQuizComplete(quizData, p.row.score,
                                          p.row.total_questions,
                                          p.row.time_taken_seconds)
        /\ appState' = "results"
  /\ pending' = RemoveAt(pending, i)
  /\ UNCHANGED <<authVars, now, log>>
  /\ Rerender
  /\ UNCHANGED <<dashVars, viewVars>>

\* the insert of pending[i] failed: the catch block, then the finally block
InsertError(i) ==
  /\ i \in 1..Len(pending)
  /\ submitting' = SubmittingAfterFinally(pending[i])
  /\ pending' = RemoveAt(pending, i)
  /\ log' = log \cup {"Error submitting quiz:"}
  /\ UNCHANGED <<authVars, appVars, sid, quiz, questions, currentQuestionIndex,
                 answers, timeLeft, loading, startTime, fetchPc, now,
                 attempts, resultVars, histVars>>
  /\ UNCHANGED <<dashVars, viewVars>>

\* ------------------------------------------------- QuizResults: fetchQuizData
\* the query without its .eq('quiz_id', quizId)
MatchesAttempt_anyQuiz(row, u, quizId) == row.user_id = u

\* .eq('user_id', user?.id).eq('quiz_id', quizId)
MatchesAttempt(row, u, quizId) == row.user_id = u /\ row.quiz_id = quizId

\* .order('created_at', { ascending: false }).limit(1): the rows the query
\* can return, more than one when the greatest created_at is shared
LatestAttempts(u, quizId) ==
  LET idx == { k \in 1..Len(attempts) : MatchesAttempt(attempts[k], u, quizId) }
  IN { attempts[k] : k \in { i \in idx :
         \A j \in idx : attempts[j].created_at <= attempts[i].created_at } }

ResultsStep(pc) ==
  /\ ResultsMounted /\ rPc = pc
  /\ UNCHANGED <<authVars, appVars, sid, sessionVars, now, pending, attempts,
                 histVars>>
  /\ UNCHANGED <<dashVars, viewVars>>

\* the catch block without the finally that clears loading
ResultsAbort_stuck(stage) ==
  /\ rPc' = stage
  /\ log' = log \cup {"Error fetching quiz data:"}
  /\ UNCHANGED <<rLoading, quizTitle, rQuestions, userAnswers>>

ResultsAbort(stage) ==
  /\ rPc' = stage
  /\ log' = log \cup {"Error fetching quiz data:"}
  /\ rLoading' = FALSE
  /\ UNCHANGED <<quizTitle, rQuestions, userAnswers>>

\* setQuizTitle moved to the answer of the first query
ResultsTitleOk_storing ==
  /\ ResultsStep("title")
  /\ quizData.quizId \in QuizIds
  /\ rPc' = "questions"
  /\ quizTitle' = QuizRow(quizData.quizId).title
  /\ UNCHANGED <<log, rLoading, rQuestions, userAnswers>>

ResultsTitleOk ==
  /\ ResultsStep("title")
  /\ quizData.quizId \in QuizIds
  /\ rPc' = "questions"
  /\ UNCHANGED <<log, rLoading, quizTitle, rQuestions, userAnswers>>

ResultsTitleError == ResultsStep("title") /\ ResultsAbort("failed-title")

ResultsQuestionsOk ==
  /\ ResultsStep("questions")
  /\ rPc' = "attempt"
  /\ UNCHANGED <<log, rLoading, quizTitle, rQuestions, userAnswers>>

ResultsQuestionsError == ResultsStep("questions") /\ ResultsAbort("failed-questions")

ResultsAttemptOk ==
  /\ ResultsStep("attempt")
  /\ \E attemptData \in LatestAttempts(user, quizData.quizId) :
       userAnswers' = attemptData.answers
  /\ quizTitle' = QuizRow(quizData.quizId).title
  /\ rQuestions' = SelectQuestions(quizData.quizId)
  /\ rLoading' = FALSE
  /\ rPc' = "ok"
  /\ UNCHANGED log

ResultsAttemptError == ResultsStep("attempt") /\ ResultsAbort("failed-attempt")

\* --------------------------------------------------- QuizResults: display
NoView == [percentage |-> Undefined, grade |-> "", review |-> <<>>]

\* scorePercentage
ScorePercentage(score, totalQuestions) == Percent(score, totalQuestions)

\* the Grade card
Grade(scorePercentage) ==
  IF scorePercentage >= 90 THEN "A"
  ELSE IF scorePercentage >= 80 THEN "B"
  ELSE IF scorePercentage >= 70 THEN "C"
  ELSE IF scorePercentage >= 60 THEN "D"
  ELSE "F"

IsCorrectAnswer(question, key) == question.correct_answer = key

\* the marker shown on the selected option whatever the outcome
ShowsYourAnswer_always(userAnswer, key, isCorrect) == userAnswer = key

\* isUserAnswer && !isCorrect
ShowsYourAnswer(userAnswer, key, isCorrect) == userAnswer = key /\ ~isCorrect

\* the Question Review list: per question the check or cross icon and, per
\* option, the (Correct) and (Your Answer) markers
Review(qs, ua) ==
  [i \in 1..Len(qs) |->
     LET question == qs[i]
         userAnswer == Get(ua, question.id)
         isCorrect == userAnswer = question.correct_answer
     IN [id |-> question.id,
         isCorrect |-> isCorrect,
         options |-> [k \in 1..Len(OptionKeys) |->
                        [key |-> OptionKeys[k],
                         correct |-> IsCorrectAnswer(question, OptionKeys[k]),
                         yours |-> ShowsYourAnswer(userAnswer, OptionKeys[k],
                                                   isCorrect)]]]]

\* the render of the loaded Results Viewer
RenderResults ==
  /\ ResultsMounted /\ ~rLoading
  /\ view = NoView
  /\ LET scorePercentage ==
           ScorePercentage(quizData.score, quizData.totalQuestions)
     IN view' = [percentage |-> scorePercentage,
                 grade |-> Grade(scorePercentage),
                 review |-> Review(rQuestions, userAnswers)]
  /\ UNCHANGED <<authVars, appVars, sid, sessionVars, now, pending, attempts,
                 log, resultVars, histVars, dashVars>>

\* ---------------------------------------------------------------- Dashboard
ConnectError == "Unable to connect to the database."

QuizzesError == "Failed to load quizzes"

NoStats == [totalAttempts |-> 0, averageScore |-> 0, bestScore |-> 0,
            timeSpent |-> 0]

\* the useState initial values of a Dashboard instance
DashboardInitialState ==
  /\ quizzes = <<>>
  /\ userStats = NoStats
  /\ quizAttempts = <<>>
  /\ dLoading = TRUE
  /\ dError = Null
  /\ connectionStatus = "testing"

DashScreen ==
  IF dLoading THEN "spinner"
  ELSE IF dError # Null THEN "error"
  ELSE "dashboard"

\* .from('quizzes').select('*').eq('is_active', true)
\*   .order('created_at', { ascending: false })
RECURSIVE OrderByCreatedAtDesc(_)
OrderByCreatedAtDesc(rows) ==
  IF rows = {} THEN <<>>
  ELSE LET first == CHOOSE r \in rows :
                      \A o \in rows : r.created_at >= o.created_at
       IN <<first>> \o OrderByCreatedAtDesc(rows \ {first})

SelectActiveQuizzes == OrderByCreatedAtDesc({ r \in QuizTable : r.is_active })

\* .from('user_quiz_attempts').select('*').eq('user_id', user.id)
SelectAttempts(u) == SelectSeq(attempts, LAMBDA a : a.user_id = u)

\* attempts.reduce((sum, attempt) => sum + attempt[field], 0)
RECURSIVE SumOf(_, _)
SumOf(rows, field) ==
  IF rows = <<>> THEN 0
  ELSE rows[1][field] + SumOf(Tail(rows), field)

\* attempts.map(attempt => Math.round((attempt.score / attempt.total_questions) * 100))
AttemptPercents(rows) ==
  [i \in 1..Len(rows) |-> Percent(rows[i].score, rows[i].total_questions)]

\* the stats object built by fetchUserStats for a non-empty list
ComputeStats(rows) ==
  LET totalScore == SumOf(rows, "score")
      totalPossibleScore == SumOf(rows, "total_questions")
  IN [totalAttempts |-> Len(rows),
      averageScore |-> IF totalPossibleScore > 0
                       THEN Percent(totalScore, totalPossibleScore)
                       ELSE 0,
      bestScore |-> MathMax(AttemptPercents(rows)),
      timeSpent |-> SumOf(rows, "time_taken_seconds")]

\* quizAttempts.filter(attempt => attempt.quiz_id === quizId)
AttemptsOfQuiz(quizId) == SelectSeq(quizAttempts, LAMBDA a : a.quiz_id = quizId)

GetQuizAttempts(quizId) == Len(AttemptsOfQuiz(quizId))

GetBestScore(quizId) ==
  LET rows == AttemptsOfQuiz(quizId)
  IN IF Len(rows) = 0 THEN Undefined
     ELSE MathMax(AttemptPercents(rows))

\* initializeDashboard going on after a failed probe
InitAfterProbe_noReturn(isConnected) == "quizzes"

\* `if (!isConnected) { ...; return }`
InitAfterProbe(isConnected) == IF isConnected THEN "quizzes" ELSE "done"

\* run i of initializeDashboard goes on to pc: it issues the call of that
\* stage, or has returned
Continue(i, pc) ==
  IF pc = "done"
  THEN /\ initRuns' = RemoveAt(initRuns, i)
       /\ UNCHANGED calls
  ELSE /\ initRuns' = [initRuns EXCEPT ![i].pc = pc]
       /\ calls' = Append(calls, [run |-> initRuns[i].id, op |-> pc])

DashStep(i, pc) ==
  /\ i \in 1..Len(initRuns)
  /\ initRuns[i].pc = pc
  /\ UNCHANGED <<authVars, appVars, sid, sessionVars, now, pending, attempts,
                 resultVars, histVars, runCount, viewVars>>

\* testConnection() resolved
Probe(i, isConnected) ==
  /\ DashStep(i, "probe")
  /\ IF isConnected
     THEN /\ connectionStatus' = "connected"
          /\ UNCHANGED <<dError, dLoading, log, failedProbes>>
     ELSE /\ connectionStatus' = "failed"
          /\ dError' = ConnectError
          /\ dLoading' = FALSE
          /\ log' = log \cup {"Supabase connection test failed:"}
          /\ failedProbes' = failedProbes \cup {initRuns[i].id}
  /\ Continue(i, InitAfterProbe(isConnected))
  /\ UNCHANGED <<quizzes, userStats, quizAttempts>>

\* fetchQuizzes without its finally block
LoadingAfterFetchQuizzes_none == dLoading

\* finally { setLoading(false) }
LoadingAfterFetchQuizzes == FALSE

\* fetchQuizzes resolved; `if (user) await fetchUserStats()` follows
FetchQuizzes(i, ok) ==
  /\ DashStep(i, "quizzes")
  /\ IF ok
     THEN /\ quizzes' = SelectActiveQuizzes
          /\ dError' = Null
          /\ UNCHANGED log
     ELSE /\ dError' = QuizzesError
          /\ log' = log \cup {"Error fetching quizzes:"}
          /\ UNCHANGED quizzes
  /\ dLoading' = LoadingAfterFetchQuizzes
  /\ Continue(i, IF initRuns[i].user # NoUser THEN "stats" ELSE "done")
  /\ UNCHANGED <<userStats, quizAttempts, connectionStatus, failedProbes>>

\* fetchUserStats resolved
FetchUserStats(i, ok) ==
  /\ DashStep(i, "stats")
  /\ IF ok
     THEN LET rows == SelectAttempts(initRuns[i].user)
          IN /\ quizAttempts' = rows
             /\ userStats' = IF Len(rows) > 0 THEN ComputeStats(rows)
                              ELSE userStats
             /\ UNCHANGED log
     ELSE /\ log' = log \cup {"Error fetching user stats:"}
          /\ UNCHANGED <<quizAttempts, userStats>>
  /\ Continue(i, "done")
  /\ UNCHANGED <<quizzes, dLoading, dError, connectionStatus, failedProbes>>

\* the Try Again button of the error display
HandleRetry ==
  /\ DashScreen = "error"
  /\ runCount < 1 + MaxRetries
  /\ dLoading' = TRUE
  /\ dError' = Null
  /\ runCount' = runCount + 1
  /\ initRuns' = Append(initRuns, [id |-> runCount + 1, pc |-> "probe",
                                    user |-> user])
  /\ calls' = Append(calls, [run |-> runCount + 1, op |-> "probe"])
  /\ UNCHANGED <<authVars, appVars, sid, sessionVars, now, pending, attempts,
                 log, resultVars, histVars, viewVars, quizzes, userStats,
                 quizAttempts, connectionStatus, failedProbes>>

\* the session changes to user u while the Dashboard is mounted: the effect
\* on [user] calls initializeDashboard of the new render
UserChanged(u) ==
  /\ Rendered(appState, authLoading, user) = "dashboard"
  /\ u # user
  /\ runCount < 1 + MaxRetries
  /\ user' = u
  /\ dLoading' = TRUE
  /\ dError' = Null
  /\ runCount' = runCount + 1
  /\ initRuns' = Append(initRuns, [id |-> runCount + 1, pc |-> "probe",
                                    user |-> u])
  /\ calls' = Append(calls, [run |-> runCount + 1, op |-> "probe"])
  /\ UNCHANGED <<authLoading, appVars, sid, sessionVars, now, pending,
                 attempts, log, resultVars, histVars, viewVars, quizzes,
                 userStats, quizAttempts, connectionStatus, failedProbes>>

\* ------------------------------------------------------------------ clock
AdvanceClock ==
  /\ now < MaxClock
  /\ now' = now + 1
  /\ UNCHANGED <<authVars, appVars, sid, sessionVars, pending, attempts, log,
                 resultVars, histVars>>
  /\ UNCHANGED <<dashVars, viewVars>>

\* ---------------------------------------------------------- specification
Init ==
  /\ user = NoUser
  /\ authLoading = TRUE
  /\ appState = "dashboard"
  /\ quizData = NoQuizData
  /\ sid = 0
  /\ quiz = Null
  /\ questions = <<>>
  /\ currentQuestionIndex = 0
  /\ answers = <<>>
  /\ timeLeft = 0
  /\ loading = TRUE
  /\ submitting = FALSE
  /\ startTime = 0
  /\ fetchPc = "none"
  /\ now = 0
  /\ pending = <<>>
  /\ attempts = <<>>
  /\ log = {}
  /\ rLoading = TRUE
  /\ rPc = "none"
  /\ quizTitle = ""
  /\ rQuestions = <<>>
  /\ userAnswers = <<>>
  /\ autoSubmitCalls = 0
  /\ lastSelect = <<>>
  /\ insertedBy = <<>>
  /\ DashboardInitialState
  /\ initRuns = <<>>
  /\ runCount = 0
  /\ calls = <<>>
  /\ failedProbes = {}
  /\ view = NoView

Next ==
  \/ \E u \in Users \cup {NoUser} : AuthResolved(u)
  \/ \E quizId \in QuizIds : HandleStartQuiz(quizId)
  \/ HandleBackToDashboard
  \/ FetchQuizOk
  \/ FetchQuizError
  \/ FetchQuestionsOk
  \/ FetchQuestionsError
  \/ Tick
  \/ \E answer \in AnswerChoices : AnswerSelect(answer)
  \/ Previous
  \/ NextQuestion
  \/ \E index \in 0..NumQuestions : Jump(index)
  \/ ManualSubmit
  \/ \E i \in 1..MaxSessions : InsertOk(i)
  \/ \E i \in 1..MaxSessions : InsertError(i)
  \/ ResultsTitleOk
  \/ ResultsTitleError
  \/ ResultsQuestionsOk
  \/ ResultsQuestionsError
  \/ ResultsAttemptOk
  \/ ResultsAttemptError
  \/ AdvanceClock

Spec == Init /\ [][Next]_vars

\* the application with the sign-out and sign-in operations of the session
NextNav ==
  \/ Next
  \/ SignOut
  \/ \E u \in Users : SignIn(u)

SpecNav == Init /\ [][NextNav]_vars

\* the state of the components that are not mounted
QuizInterfaceIdle ==
  /\ sid = 0
  /\ quiz = Null
  /\ questions = <<>>
  /\ currentQuestionIndex = 0
  /\ answers = <<>>
  /\ timeLeft = 0
  /\ loading = TRUE
  /\ submitting = FALSE
  /\ startTime = 0
  /\ fetchPc = "none"
  /\ autoSubmitCalls = 0
  /\ lastSelect = <<>>

QuizResultsIdle ==
  /\ rLoading = TRUE
  /\ rPc = "none"
  /\ quizTitle = ""
  /\ rQuestions = <<>>
  /\ userAnswers = <<>>

DashboardIdle ==
  /\ DashboardInitialState
  /\ initRuns = <<>>
  /\ runCount = 0
  /\ calls = <<>>
  /\ failedProbes = {}

\* ----------------------------------------- the Dashboard of a signed-in user
OtherUser == "u2"

\* 3/5 and 5/5; 23/40, whose percentage is 57.5; 0/0, the attempt of a quiz
\* without questions
ScorePairs == { <<3, 5>>, <<5, 5>>, <<23, 40>>, <<0, 0>> }

TimeValues == { 20, 45 }

StoredAttempt(u, quizId, score, totalQuestions, timeTaken, ans) ==
  [user_id |-> u, quiz_id |-> quizId, score |-> score,
   total_questions |-> totalQuestions, time_taken_seconds |-> timeTaken,
   answers |-> ans]

AttemptRows ==
  { StoredAttempt(u, q, p[1], p[2], t, <<>>) :
      u \in Users, q \in QuizIds, p \in ScorePairs, t \in TimeValues }
  \cup { StoredAttempt(OtherUser, "quizA", 5, 5, 20, <<>>) }

AttemptLists == UNION { [1..n -> AttemptRows] : n \in 0..MaxAttempts }

\* the Dashboard just mounted: its effect has called initializeDashboard
InitDash ==
  /\ user \in Users
  /\ authLoading = FALSE
  /\ appState = "dashboard"
  /\ quizData = NoQuizData
  /\ QuizInterfaceIdle
  /\ QuizResultsIdle
  /\ now = 0
  /\ pending = <<>>
  /\ attempts \in AttemptLists
  /\ insertedBy = <<>>
  /\ log = {}
  /\ DashboardInitialState
  /\ initRuns = <<[id |-> 1, pc |-> "probe", user |-> user]>>
  /\ runCount = 1
  /\ calls = <<[run |-> 1, op |-> "probe"]>>
  /\ failedProbes = {}
  /\ view = NoView

NextDash ==
  \/ \E i \in 1..(1 + MaxRetries), isConnected \in BOOLEAN : Probe(i, isConnected)
  \/ \E i \in 1..(1 + MaxRetries), ok \in BOOLEAN : FetchQuizzes(i, ok)
  \/ \E i \in 1..(1 + MaxRetries), ok \in BOOLEAN : FetchUserStats(i, ok)
  \/ HandleRetry

SpecDash == InitDash /\ [][NextDash]_vars

\* every backend call of the Dashboard is answered in the end
ProbeAnswered ==
  \E i \in 1..(1 + MaxRetries), isConnected \in BOOLEAN : Probe(i, isConnected)

QuizzesAnswered ==
  \E i \in 1..(1 + MaxRetries), ok \in BOOLEAN : FetchQuizzes(i, ok)

StatsAnswered ==
  \E i \in 1..(1 + MaxRetries), ok \in BOOLEAN : FetchUserStats(i, ok)

SpecDashFair ==
  /\ InitDash
  /\ [][NextDash]_vars
  /\ WF_vars(ProbeAnswered)
  /\ WF_vars(QuizzesAnswered)
  /\ WF_vars(StatsAnswered)

\* the Dashboard with changes of the signed-in user
NextDashUsers ==
  \/ NextDash
  \/ user \in Users /\ UserChanged(OtherUser)

\* the table holds at most one attempt
InitDashUsers == InitDash /\ Len(attempts) <= 1

SpecDashUsers == InitDashUsers /\ [][NextDashUsers]_vars

\* ------------------------------------------ the display of the Results Viewer
AnswerMaps(qs) ==
  UNION { [ids -> { OptionKeys[k] : k \in 1..Len(OptionKeys) } \cup {""}] :
            ids \in SUBSET { qs[i].id : i \in 1..Len(qs) } }

\* a loaded Results Viewer: its props and the answers of the stored attempt
InitView ==
  /\ user \in Users
  /\ authLoading = FALSE
  /\ appState = "results"
  /\ \E totalQuestions \in 1..MaxTotal : \E score \in 0..totalQuestions :
       quizData = [quizId |-> "quizA", score |-> score,
                   totalQuestions |-> totalQuestions, timeTaken |-> 0]
  /\ QuizInterfaceIdle
  /\ now = 0
  /\ pending = <<>>
  /\ rQuestions = SelectQuestions("quizA")
  /\ userAnswers \in AnswerMaps(rQuestions)
  /\ attempts = <<StoredAttempt(user, "quizA", quizData.score,
                                 quizData.totalQuestions, 0, userAnswers)>>
  /\ insertedBy = <<>>
  /\ log = {}
  /\ rLoading = FALSE
  /\ rPc = "ok"
  /\ quizTitle = QuizRow("quizA").title
  /\ DashboardIdle
  /\ view = NoView

NextView == RenderResults

SpecView == InitView /\ [][NextView]_vars

\* --------------------------------- the Results Viewer over a filled table
\* the row a quiz session of user u inserts for the selections ans
SessionRow(u, quizId, ans, timeTaken) ==
  LET qs == SelectQuestions(quizId)
      r == ScoreLoop(qs, ans, 1, 0, <<>>)
  IN [user_id |-> u, quiz_id |-> quizId, score |-> r.score,
      total_questions |-> Len(qs), time_taken_seconds |-> timeTaken,
      answers |-> r.userAnswers]

\* the selections of a session in which every question was answered
SessionAnswers(quizId) ==
  [{ q.id : q \in { r \in QuestionTable : r.quiz_id = quizId } } -> AnswerChoices]

CreatedAtValues == { 1, 2 }

SessionTime == 20

\* rows of earlier sessions, of the user and of another user, on every quiz
EarlierRows ==
  UNION { { Persisted(SessionRow(u, quizId, ans, SessionTime), t) :
              u \in Users \cup {OtherUser}, ans \in SessionAnswers(quizId),
              t \in CreatedAtValues } : quizId \in QuizIds }

EarlierTables == UNION { [1..n -> EarlierRows] : n \in 0..MaxAttempts }

\* another session of the application (another tab, another user) has its
\* insert stored
OtherSessionInsert(u, quizId, ans) ==
  /\ Len(attempts) < MaxAttempts + 2
  /\ attempts' = Append(attempts,
                        Persisted(SessionRow(u, quizId, ans, SessionTime), DbNow))
  /\ insertedBy' = Append(insertedBy, [sid |-> 0, auto |-> FALSE,
                                        snapshot |-> ans])
  /\ UNCHANGED <<authVars, appVars, sid, sessionVars, now, pending, log,
                 resultVars, autoSubmitCalls, lastSelect, dashVars, viewVars>>

\* session 1 of the user has had its insert stored and has called
\* onComplete: the Results Viewer is mounted and has issued its first query
InitResults ==
  /\ user \in Users
  /\ authLoading = FALSE
  /\ appState = "results"
  /\ \E earlier \in EarlierTables, quizId \in QuizIds :
       \E ans \in SessionAnswers(quizId) :
         LET row == SessionRow(user, quizId, ans, SessionTime)
         IN /\ attempts = Append(earlier, Persisted(row, NextCreatedAt(earlier)))
            /\ insertedBy =
                 [k \in 1..(Len(earlier) + 1) |->
                    [sid |-> IF k = Len(earlier) + 1 THEN 1 ELSE 0,
                     auto |-> FALSE,
                     snapshot |-> IF k = Len(earlier) + 1 THEN ans
                                  ELSE earlier[k].answers]]
            /\ quizData = HandleQuizComplete([NoQuizData EXCEPT !.quizId = quizId],
                                             row.score, row.total_questions,
                                             row.time_taken_seconds)
  /\ sid = 1
  /\ quiz = Null
  /\ questions = <<>>
  /\ currentQuestionIndex = 0
  /\ answers = <<>>
  /\ timeLeft = 0
  /\ loading = TRUE
  /\ submitting = FALSE
  /\ startTime = 0
  /\ fetchPc = "none"
  /\ autoSubmitCalls = 0
  /\ lastSelect = <<>>
  /\ now = 0
  /\ pending = <<>>
  /\ log = {}
  /\ rLoading = TRUE
  /\ rPc = "title"
  /\ quizTitle = ""
  /\ rQuestions = <<>>
  /\ userAnswers = <<>>
  /\ DashboardIdle
  /\ view = NoView

NextResults ==
  \/ ResultsTitleOk
  \/ ResultsTitleError
  \/ ResultsQuestionsOk
  \/ ResultsQuestionsError
  \/ ResultsAttemptOk
  \/ ResultsAttemptError
  \/ RenderResults
  \/ \E u \in Users \cup {OtherUser}, quizId \in QuizIds :
       \E ans \in SessionAnswers(quizId) : OtherSessionInsert(u, quizId, ans)

SpecResults == InitResults /\ [][NextResults]_vars

\* ------------------------------------------------------------ properties
FailedFetch == {"failed-quiz", "failed-questions"}

FailedStages == {"failed-title", "failed-questions", "failed-attempt"}

\* every attempt handed to the backend: still in flight, or persisted
SubmittedRecs ==
  { [sid |-> pending[i].sid, auto |-> pending[i].auto,
     snapshot |-> pending[i].snapshot, row |-> pending[i].row,
     persisted |-> FALSE] : i \in 1..Len(pending) }
  \cup
  { [sid |-> insertedBy[k].sid, auto |-> insertedBy[k].auto,
     snapshot |-> insertedBy[k].snapshot, row |-> attempts[k],
     persisted |-> TRUE] : k \in 1..Len(attempts) }

LoadedQuestions(quizId) == { q \in QuestionTable : q.quiz_id = quizId }

ReferenceScore(snapshot, quizId) ==
  Cardinality({ q \in LoadedQuestions(quizId) :
                  q.id \in DOMAIN snapshot /\ snapshot[q.id] = q.correct_answer })

ReferenceAnswers(snapshot, quizId) ==
  [id \in { q.id : q \in LoadedQuestions(quizId) } |->
     IF id \in DOMAIN snapshot THEN snapshot[id] ELSE ""]

\* C1: once the quiz is loaded, the timer effect calls handleSubmit exactly
\* once, at the moment timeLeft reaches zero; a session issues at most one
\* automatic insert, and that attempt has the shape of a manual one: the
\* score rule, total_questions = number of loaded questions, one answers
\* entry per loaded question.
C1_AutoSubmitOnce ==
  /\ autoSubmitCalls <= 1
  /\ QuizMounted /\ quiz # Null => (autoSubmitCalls = 1 <=> timeLeft = 0)
  /\ \A r \in SubmittedRecs : r.auto =>
       /\ r.row.score = ReferenceScore(r.snapshot, r.row.quiz_id)
       /\ r.row.total_questions = Cardinality(LoadedQuestions(r.row.quiz_id))
       /\ r.row.answers = ReferenceAnswers(r.snapshot, r.row.quiz_id)
  /\ \A i, j \in 1..Len(pending) :
       pending[i].auto /\ pending[j].auto /\ pending[i].sid = pending[j].sid
         => i = j

C1_Witness ==
  \E k \in 1..Len(attempts) :
    /\ insertedBy[k].auto
    /\ attempts[k].total_questions = NumQuestions
    /\ attempts[k].score >= 1

\* C2: a session has at most one insert in flight, whatever the interleaving
\* of Submit clicks, the timeout and the insert responses, and while its
\* insert is in flight the mounted session has submitting set.
C2_OneInsertInFlight ==
  /\ \A i, j \in 1..Len(pending) : pending[i].sid = pending[j].sid => i = j
  /\ \A i \in 1..Len(pending) :
       QuizMounted /\ pending[i].sid = sid => submitting

C2_Witness ==
  /\ QuizMounted
  /\ Len(pending) = 1
  /\ ~pending[1].auto
  /\ timeLeft = 0
  /\ autoSubmitCalls = 1

C3_StateInv ==
  /\ \A j, k \in 1..Len(attempts) : insertedBy[j].sid = insertedBy[k].sid => j = k
  /\ \A i \in 1..Len(pending), k \in 1..Len(attempts) :
       pending[i].sid # insertedBy[k].sid
  /\ \A k \in 1..Len(attempts) : ~(QuizMounted /\ insertedBy[k].sid = sid)

C3_Step ==
  /\ Len(attempts') >= Len(attempts)
  /\ SubSeq(attempts', 1, Len(attempts)) = attempts

\* C3: a session persists at most one attempt, issues no insert once one of
\* its inserts has succeeded, and a persisted attempt is never changed or
\* removed.
C3_AttemptOncePerSession == [](C3_StateInv) /\ [][C3_Step]_vars

C3_Witness ==
  /\ Len(attempts) = 1
  /\ "Error submitting quiz:" \in log
  /\ appState = "results"

\* C4: with N >= 1 loaded questions currentQuestionIndex stays in 0..N-1
\* under Previous, Next and the number buttons; Previous at 0 and Next at
\* N-1 keep the index.
C4_IndexInRange ==
  QuizMounted /\ Len(questions) >= 1 =>
    /\ currentQuestionIndex \in 0..(Len(questions) - 1)
    /\ PreviousIndex(0) = 0
    /\ NextIndex(Len(questions) - 1, Len(questions)) = Len(questions) - 1
    /\ JumpTargets(Len(questions)) \subseteq 0..(Len(questions) - 1)

C4_Witness ==
  /\ Active
  /\ Len(questions) >= 2
  /\ currentQuestionIndex = Len(questions) - 1

C5_SelectStep ==
  /\ QuizMounted /\ QuizMounted' /\ sid' = sid
  /\ lastSelect' # <<>>
  /\ lastSelect' # lastSelect \/ answers' # answers

C5_Step ==
  /\ C5_SelectStep =>
       /\ DOMAIN answers' = (DOMAIN answers) \cup {lastSelect'[1]}
       /\ answers'[lastSelect'[1]] = lastSelect'[2]
       /\ \A q \in (DOMAIN answers) \ {lastSelect'[1]} : answers'[q] = answers[q]
  /\ QuizMounted /\ QuizMounted' /\ sid' = sid /\ lastSelect' = lastSelect
       => answers' = answers

\* C5: a selection for question Q stores that option for Q, replacing the
\* prior one, adds no other entry and leaves every other question's answer
\* as it was; nothing else changes the answers of a session.
C5_LastWriteWins == [][C5_Step]_vars

C5_Witness ==
  /\ QuizMounted
  /\ lastSelect # <<>>
  /\ lastSelect[3] \notin {UndefinedAnswer, lastSelect[2]}
  /\ answers[lastSelect[1]] = lastSelect[2]
  /\ Cardinality(DOMAIN answers) >= 2

\* C6: the score of every submitted attempt is the number of loaded
\* questions whose stored answer equals correct_answer (an unanswered
\* question never counts), so 0 <= score <= total_questions = number of
\* loaded questions.
C6_ScoreRule ==
  \A r \in SubmittedRecs :
    /\ r.row.score = ReferenceScore(r.snapshot, r.row.quiz_id)
    /\ r.row.total_questions = Cardinality(LoadedQuestions(r.row.quiz_id))
    /\ 0 <= r.row.score /\ r.row.score <= r.row.total_questions

C6_Witness ==
  \E k \in 1..Len(attempts) :
    /\ attempts[k].score = 1
    /\ attempts[k].total_questions = NumQuestions
    /\ \E q \in LoadedQuestions(attempts[k].quiz_id) :
         attempts[k].answers[q.id] \notin {"", q.correct_answer}

\* C7: the answers map of every submitted attempt has exactly the loaded
\* question ids as keys, holding the selected option of an answered question
\* and the empty string of an unanswered one.
C7_AnswersMap ==
  \A r \in SubmittedRecs :
    /\ DOMAIN r.row.answers = { q.id : q \in LoadedQuestions(r.row.quiz_id) }
    /\ \A id \in DOMAIN r.row.answers :
         r.row.answers[id] = IF id \in DOMAIN r.snapshot
                             THEN r.snapshot[id] ELSE ""

C7_Witness ==
  \E k \in 1..Len(attempts) :
    /\ Cardinality(DOMAIN attempts[k].answers) = NumQuestions
    /\ Cardinality({ id \in DOMAIN attempts[k].answers :
                       attempts[k].answers[id] = "" }) = 1
    /\ NumQuestions >= 2

\* a step in which an insert's response was a backend error
InsertFailedStep == attempts' = attempts /\ Len(pending') < Len(pending)

C8_FailureHandling(submittingAfter) ==
  InsertFailedStep =>
    \E i \in 1..Len(pending) :
      /\ pending' = RemoveAt(pending, i)
      /\ "Error submitting quiz:" \in log'
      /\ appState' = appState /\ quizData' = quizData
      /\ QuizMounted /\ pending[i].sid = sid =>
           QuizMounted' /\ submitting' = submittingAfter

\* C8 as claimed: after a failed insert the error is logged, onComplete is
\* not called, no insert is re-issued and the submitting flag stays set.
C8_Original == [][C8_FailureHandling(TRUE)]_vars

\* C8 as amended: after a failed insert the error is logged, onComplete is
\* not called, no insert is re-issued and the submitting flag is cleared.
C8_InsertFailure == [][C8_FailureHandling(FALSE)]_vars

C8_Witness ==
  /\ Active
  /\ "Error submitting quiz:" \in log
  /\ ~submitting
  /\ pending = <<>>
  /\ attempts = <<>>

\* C9 as claimed: a failed query of the Results Viewer leaves the loading
\* flag set.
C9_Original == ResultsMounted /\ rPc \in FailedStages => rLoading

C9_StateInv ==
  ResultsMounted /\ rPc \in FailedStages =>
    /\ ~rLoading
    /\ quizTitle = "" /\ rQuestions = <<>> /\ userAnswers = <<>>
    /\ "Error fetching quiz data:" \in log

C9_Step ==
  /\ rPc \in FailedStages /\ ResultsMounted' => rPc' = rPc
  /\ rPc' = "failed-title" => rPc \in {"title", "failed-title"}
  /\ rPc' = "failed-questions" /\ ResultsMounted' =>
       rPc \in {"questions", "failed-questions"}
  /\ rPc' = "failed-attempt" => rPc \in {"attempt", "failed-attempt"}

\* C9 as amended: a failure of any of the three queries aborts the load at
\* that query (no later query is issued, nothing of the load is stored), is
\* logged, and the loading flag is cleared.
C9_ResultsLoadFailure == [](C9_StateInv) /\ [][C9_Step]_vars

C9_Witness ==
  /\ ResultsMounted
  /\ rPc = "failed-attempt"
  /\ ~rLoading

C10_StateInv ==
  /\ Active => fetchPc = "ok"
  /\ QuizMounted /\ fetchPc \in {"quiz", "questions"} => quiz = Null /\ timeLeft = 0
  /\ QuizMounted /\ fetchPc \in FailedFetch =>
       /\ quiz = Null
       /\ timeLeft = 0
       /\ autoSubmitCalls = 0
       /\ ~submitting
       /\ QuizScreen = "notfound"
       /\ \A r \in SubmittedRecs : r.sid # sid

C10_Step ==
  QuizMounted /\ fetchPc \in FailedFetch =>
    \/ QuizMounted' /\ UNCHANGED <<sid, sessionVars>>
    \/ ~QuizMounted' /\ appState' = "dashboard" /\ quizData' = NoQuizData
    \/ ~QuizMounted' /\ Len(attempts') > Len(attempts)

\* C10: the session is Active only after both fetches succeeded; after a
\* failed fetch quiz stays null, the countdown never starts, the session
\* submits nothing, and the "not found" display stays until Back.
C10_LoadFailure == [](C10_StateInv) /\ [][C10_Step]_vars

C10_Witness ==
  /\ QuizMounted
  /\ fetchPc = "failed-questions"
  /\ QuizScreen = "notfound"

\* a step in which the countdown of a session went down
C11_TickStep == QuizMounted' /\ sid' = sid /\ timeLeft' < timeLeft

\* C11 as claimed: the countdown of a session goes down only while the
\* session is mounted and not Submitting.
C11_Original == [][C11_TickStep => QuizMounted /\ ~submitting]_vars

\* C12: a loaded quiz with zero questions shows the "not found" display, and
\* every render that reads a field of questions[currentQuestionIndex] has a
\* question at that index.
C12_ZeroQuestions ==
  /\ QuizMounted /\ ~loading /\ Len(questions) = 0 => QuizScreen = "notfound"
  /\ RendersQuestion => CurrentQuestionDefined

C12_Witness ==
  /\ QuizMounted
  /\ fetchPc = "ok"
  /\ quiz # Null
  /\ questions = <<>>
  /\ QuizScreen = "notfound"
  /\ timeLeft > 0

NavTransitions ==
  { <<"dashboard", "quiz">>, <<"quiz", "results">>,
    <<"quiz", "dashboard">>, <<"results", "dashboard">> }

\* C13 as claimed: appState changes only along dashboard -> quiz,
\* quiz -> results, quiz -> dashboard and results -> dashboard.
C13_Original ==
  [][appState' # appState => <<appState, appState'>> \in NavTransitions]_vars

\* no component with business content is mounted
NoBusinessScreen ==
  /\ Rendered(appState, authLoading, user) \notin {"dashboard", "quiz", "results"}
  /\ ~QuizMounted /\ fetchPc = "none"
  /\ ~ResultsMounted /\ rPc = "none"

\* C14: while the auth loading flag is set only the spinner is rendered, and
\* while there is no user only the auth page is rendered, whatever appState
\* and quizData are; no Dashboard, QuizInterface or QuizResults is mounted.
C14_AuthGate ==
  /\ authLoading =>
       Rendered(appState, authLoading, user) = "spinner" /\ NoBusinessScreen
  /\ ~authLoading /\ user = NoUser =>
       Rendered(appState, authLoading, user) = "auth" /\ NoBusinessScreen

C14_Witness ==
  /\ ~authLoading
  /\ user = NoUser
  /\ appState = "results"
  /\ quizData.score # Undefined
  /\ "Error submitting quiz:" \in log

\* the backend calls issued by run r of initializeDashboard, in order
OpsOf(r) ==
  LET sel == SelectSeq(calls, LAMBDA c : c.run = r)
  IN [i \in 1..Len(sel) |-> sel[i].op]

InitSequence == <<"probe", "quizzes", "stats">>

\* C15: every run of initializeDashboard, the one of the mount and those of
\* Try Again alike, issues its calls in the order probe, quizzes, stats; a
\* run whose probe failed issues no other call and has returned; and after
\* the probe of the latest run failed the error display with Try Again is
\* shown: connectionStatus 'failed', error set, loading false.
C15_InitOrder ==
  /\ \A r \in 1..runCount :
       \E n \in 1..Len(InitSequence) : OpsOf(r) = SubSeq(InitSequence, 1, n)
  /\ \A r \in failedProbes :
       /\ OpsOf(r) = <<"probe">>
       /\ \A i \in 1..Len(initRuns) : initRuns[i].id # r
  /\ runCount \in failedProbes =>
       /\ DashScreen = "error"
       /\ connectionStatus = "failed"
       /\ dError = ConnectError
       /\ ~dLoading

C15_Witness ==
  /\ 1 \in failedProbes
  /\ runCount = 2
  /\ OpsOf(2) = InitSequence
  /\ initRuns = <<>>
  /\ DashScreen = "dashboard"
  /\ connectionStatus = "connected"

C16_Step ==
  /\ InsertFailedStep => Len(pending') = Len(pending) - 1
  /\ Len(pending') > Len(pending) =>
       /\ Len(pending') = Len(pending) + 1
       /\ SubSeq(pending', 1, Len(pending)) = pending
       /\ IF pending'[Len(pending')].auto
          THEN /\ timeLeft # 0 /\ timeLeft' = 0
               /\ autoSubmitCalls = 0 /\ autoSubmitCalls' = 1
          ELSE /\ Active
               /\ ShowsSubmit(currentQuestionIndex, Len(questions))
               /\ ~submitting
               /\ timeLeft' = timeLeft
  /\ QuizMounted /\ fetchPc \in FailedFetch /\ QuizMounted' /\ sid' = sid
       => fetchPc' = fetchPc
  /\ ResultsMounted /\ rPc \in FailedStages /\ ResultsMounted' => rPc' = rPc

RoundedPercent(score, total) == (200 * score + total) \div (2 * total)

BestRounded(rows) ==
  CHOOSE b \in { RoundedPercent(rows[i].score, rows[i].total_questions) :
                   i \in 1..Len(rows) } :
    \A i \in 1..Len(rows) :
      RoundedPercent(rows[i].score, rows[i].total_questions) <= b

ReferenceStats(rows) ==
  [totalAttempts |-> Len(rows),
   averageScore |-> IF SumOf(rows, "total_questions") = 0 THEN 0
                    ELSE RoundedPercent(SumOf(rows, "score"),
                                        SumOf(rows, "total_questions")),
   bestScore |-> IF rows = <<>> THEN 0 ELSE BestRounded(rows),
   timeSpent |-> SumOf(rows, "time_taken_seconds")]

HasQuestions(rows) == \A i \in 1..Len(rows) : rows[i].total_questions >= 1

\* C17 as claimed: the stats of the Dashboard are the reference formulas
\* over the fetched attempts (stated for attempts of total_questions >= 1,
\* where the formulas have a value).
C17_Original ==
  HasQuestions(quizAttempts) => userStats = ReferenceStats(quizAttempts)

\* C18 as claimed: a card's attempt count and best score are the count and
\* the maximum of round(100 * score / total_questions) over the fetched
\* attempts of that quiz, the best score absent when there are none.
C18_Original ==
  \A i \in 1..Len(quizzes) :
    LET own == SelectSeq(quizAttempts, LAMBDA a : a.quiz_id = quizzes[i].id)
    IN HasQuestions(own) =>
         /\ GetQuizAttempts(quizzes[i].id) = Len(own)
         /\ GetBestScore(quizzes[i].id) =
              IF own = <<>> THEN Undefined ELSE BestRounded(own)

ReferenceGrade(percentage) ==
  IF percentage >= 90 THEN "A"
  ELSE IF percentage \in 80..89 THEN "B"
  ELSE IF percentage \in 70..79 THEN "C"
  ELSE IF percentage \in 60..69 THEN "D"
  ELSE "F"

\* C19 as claimed: the displayed percentage is round(100 * score / total)
\* and the grade is its bucket, for every score in 0..total, total >= 1.
C19_Original ==
  view # NoView =>
    /\ view.percentage = RoundedPercent(quizData.score, quizData.totalQuestions)
    /\ view.grade = ReferenceGrade(view.percentage)

\* C20: in the review of every question exactly one option, the one of
\* correct_answer, carries (Correct); (Your Answer) is only on the option
\* the user selected and only when that selection is wrong, so on at most
\* one option; a question whose stored answer is '' or missing is marked
\* incorrect and has no (Your Answer).
C20_ReviewMarkings ==
  view # NoView =>
    /\ Len(view.review) = Len(rQuestions)
    /\ \A i \in 1..Len(view.review) :
         LET r == view.review[i]
             q == rQuestions[i]
             ks == 1..Len(r.options)
             answered == q.id \in DOMAIN userAnswers /\ userAnswers[q.id] # ""
         IN /\ { k \in ks : r.options[k].correct }
                 = { k \in ks : r.options[k].key = q.correct_answer }
            /\ Cardinality({ k \in ks : r.options[k].correct }) = 1
            /\ \A k \in ks : r.options[k].yours =>
                 /\ answered
                 /\ r.options[k].key = userAnswers[q.id]
                 /\ userAnswers[q.id] # q.correct_answer
            /\ Cardinality({ k \in ks : r.options[k].yours }) <= 1
            /\ r.isCorrect <=> answered /\ userAnswers[q.id] = q.correct_answer
            /\ ~answered => ~r.isCorrect /\ \A k \in ks : ~r.options[k].yours

C20_Witness ==
  /\ view # NoView
  /\ \E i, j \in 1..Len(view.review) :
       /\ rQuestions[i].id \notin DOMAIN userAnswers
       /\ ~view.review[i].isCorrect
       /\ \E k \in 1..Len(OptionKeys) : view.review[j].options[k].yours

\* the stored attempts of the signed-in user on the quiz of the Results Viewer
OwnAttempts ==
  { k \in 1..Len(attempts) :
      attempts[k].user_id = user /\ attempts[k].quiz_id = quizData.quizId }

C21_Step ==
  rPc = "attempt" /\ rPc' = "ok" =>
    \E k \in OwnAttempts :
      /\ \A j \in OwnAttempts : attempts[j].created_at <= attempts[k].created_at
      /\ userAnswers' = attempts[k].answers

\* C21: the answers the Results Viewer recovers are those of an attempt of
\* the current user on the given quiz whose created_at is the greatest among
\* these attempts, never those of an older attempt or of an attempt of
\* another user or on another quiz.
C21_LatestAttempt == [][C21_Step]_vars

C21_Witness ==
  /\ rPc = "ok"
  /\ \E k \in OwnAttempts :
       /\ userAnswers = attempts[k].answers
       /\ \A j \in OwnAttempts : attempts[j].created_at <= attempts[k].created_at
       /\ \E j \in OwnAttempts :
            /\ attempts[j].created_at < attempts[k].created_at
            /\ attempts[j].answers # userAnswers
       /\ \E j \in 1..Len(attempts) :
            /\ attempts[j].user_id # user
            /\ attempts[j].quiz_id = quizData.quizId
            /\ attempts[j].created_at > attempts[k].created_at
            /\ attempts[j].answers # userAnswers

\* a step in which AppContent's handleQuizComplete ran
C22_CompleteStep ==
  \/ appState' = "results" /\ appState # "results"
  \/ /\ quizData'.score # Undefined
     /\ <<quizData'.score, quizData'.totalQuestions, quizData'.timeTaken>>
          # <<quizData.score, quizData.totalQuestions, quizData.timeTaken>>

C22_Step ==
  /\ C22_CompleteStep =>
       /\ Len(attempts') = Len(attempts) + 1
       /\ \E i \in 1..Len(pending) :
            /\ pending' = RemoveAt(pending, i)
            /\ attempts'[Len(attempts')] = Persisted(pending[i].row, DbNow)
            /\ \A k \in 1..Len(attempts) : insertedBy[k].sid # pending[i].sid
       /\ quizData'.score = attempts'[Len(attempts')].score
       /\ quizData'.totalQuestions = attempts'[Len(attempts')].total_questions
       /\ quizData'.timeTaken = attempts'[Len(attempts')].time_taken_seconds
  /\ Len(attempts') > Len(attempts) => C22_CompleteStep
  /\ QuizMounted' /\ (~QuizMounted \/ sid' # sid) => startTime' = now'
  /\ QuizMounted /\ QuizMounted' /\ sid' = sid => startTime' = startTime
  /\ Len(pending') > Len(pending) =>
       /\ pending'[Len(pending')].sid = sid
       /\ pending'[Len(pending')].row.time_taken_seconds
            = ((now - startTime) * ClockStepMs) \div MsPerSecond

\* C22: onComplete is called only in the step in which the insert of a
\* session is stored, for a session none of whose inserts was stored before,
\* with the score, total_questions and time_taken of the stored row; the
\* time_taken of an insert is the whole seconds elapsed between the mount of
\* its session and the submission.
C22_OnComplete == [][C22_Step]_vars

C22_Witness ==
  /\ appState = "results"
  /\ Len(attempts) = 1
  /\ quizData.score = attempts[1].score
  /\ quizData.score >= 1
  /\ quizData.timeTaken = attempts[1].time_taken_seconds
  /\ quizData.timeTaken = 1
  /\ insertedBy[1].auto
  /\ "Error submitting quiz:" \in log

\* C23 as claimed: whenever the Results Viewer is rendered, quizData.quizId
\* is the non-empty id of the quiz of a stored attempt that has the score,
\* total and time shown.
C23_Original ==
  ResultsMounted =>
    /\ quizData.quizId # EmptyId
    /\ \E k \in 1..Len(attempts) :
         /\ attempts[k].quiz_id = quizData.quizId
         /\ attempts[k].score = quizData.score
         /\ attempts[k].total_questions = quizData.totalQuestions
         /\ attempts[k].time_taken_seconds = quizData.timeTaken

\* C24 as claimed: every attempt handed to the backend, stored or still in
\* flight, has total_questions >= 1.
C24_Original == \A r \in SubmittedRecs : r.row.total_questions >= 1

C25_StateInv ==
  /\ timeLeft >= 0
  /\ QuizMounted /\ fetchPc # "ok" =>
       /\ autoSubmitCalls = 0
       /\ timeLeft = 0
       /\ \A r \in SubmittedRecs : r.sid # sid

C25_Step ==
  /\ QuizMounted' /\ autoSubmitCalls' > 0
     /\ (~QuizMounted \/ sid' # sid \/ autoSubmitCalls' # autoSubmitCalls) =>
       /\ QuizMounted /\ sid' = sid
       /\ fetchPc = "ok"
       /\ timeLeft = 1 /\ timeLeft' = 0
  /\ QuizMounted /\ QuizMounted' /\ sid' = sid /\ timeLeft' # timeLeft =>
       \/ /\ fetchPc = "questions" /\ fetchPc' = "ok"
          /\ timeLeft' = QuizRow(quizData.quizId).duration_minutes * SecondsPerMinute
       \/ /\ fetchPc = "ok" /\ fetchPc' = "ok"
          /\ timeLeft' = timeLeft - 1
  /\ \A i \in 1..Len(pending') :
       pending'[i].auto /\ (i > Len(pending) \/ pending'[i] \notin
                              { pending[j] : j \in 1..Len(pending) }) =>
         fetchPc = "ok" /\ timeLeft = 1 /\ timeLeft' = 0

\* C25: the timer effect calls handleSubmit, and an automatic insert is
\* issued, only in the step that takes the countdown of a loaded session
\* from 1 to 0; the countdown is set once, to duration_minutes * 60 by the
\* successful load, and then only goes down by one; before the load has
\* succeeded, and after a failed load, it stays 0 and nothing is submitted;
\* timeLeft is never negative.
C25_AutoSubmitAfterCountdown == [](C25_StateInv) /\ [][C25_Step]_vars

C25_Witness ==
  /\ QuizMounted
  /\ fetchPc = "ok"
  /\ timeLeft = 0
  /\ autoSubmitCalls = 1
  /\ Len(questions) = NumQuestions
  /\ DOMAIN answers # {}
  /\ log = {}
  /\ \E i \in 1..Len(pending) : pending[i].auto /\ pending[i].sid = sid

\* C26 as claimed: the render that follows a sign-in shows the dashboard,
\* and quizData holds nothing of an earlier session.
C26_Original ==
  [][~authLoading /\ user = NoUser /\ user' # NoUser =>
       /\ Rendered(appState', authLoading', user') = "dashboard"
       /\ quizData' = NoQuizData]_vars

\* C27 as claimed: the stats shown are the aggregates of the attempt list
\* stored by the same fetch, all 0 when that list is empty.
C27_Original ==
  userStats = IF quizAttempts = <<>> THEN NoStats ELSE ComputeStats(quizAttempts)

\* the stages of fetchQuizData and the queries that follow one another
LoadOrder ==
  { <<"title", "questions">>, <<"questions", "attempt">>, <<"attempt", "ok">>,
    <<"title", "failed-title">>, <<"questions", "failed-questions">>,
    <<"attempt", "failed-attempt">> }

C28_StateInv ==
  ResultsMounted =>
    /\ rPc = "ok" =>
         /\ quizTitle = QuizRow(quizData.quizId).title
         /\ rQuestions = SelectQuestions(quizData.quizId)
         /\ \E k \in OwnAttempts : userAnswers = attempts[k].answers
         /\ ~rLoading
    /\ rPc # "ok" => quizTitle = "" /\ rQuestions = <<>> /\ userAnswers = <<>>
    /\ view # NoView =>
         /\ ~rLoading
         /\ view.review = IF rPc = "ok"
                           THEN Review(SelectQuestions(quizData.quizId), userAnswers)
                           ELSE <<>>

C28_Step ==
  ResultsMounted /\ ResultsMounted' /\ rPc' # rPc => <<rPc, rPc'>> \in LoadOrder

\* C28: the queries of the Results Viewer are issued in the order title,
\* questions, latest attempt, none after a failed one; quizTitle, questions
\* and userAnswers are all set by the load that succeeded in all three and
\* otherwise all keep their initial empty values, and the review shows
\* either every question of the quiz or none.
C28_AllOrNothing == [](C28_StateInv) /\ [][C28_Step]_vars

C28_Witness ==
  /\ ResultsMounted
  /\ rPc = "failed-attempt"
  /\ view # NoView
  /\ view.review = <<>>
  /\ quizTitle = ""
  /\ Cardinality(OwnAttempts) >= 2
  /\ SelectQuestions(quizData.quizId) # <<>>

\* the number of questions the review marks as correct
MarkedCorrect ==
  Cardinality({ i \in 1..Len(view.review) : view.review[i].isCorrect })

\* C29 as claimed: after a successful load the number of questions marked
\* correct is the score passed by the session, and the answers shown are
\* those of the attempt the session inserted.
C29_Original ==
  view # NoView /\ rPc = "ok" =>
    /\ MarkedCorrect = quizData.score
    /\ \E k \in 1..Len(attempts) :
         insertedBy[k].sid = sid /\ userAnswers = attempts[k].answers

\* run r of initializeDashboard is at stage pc
RunAt(r, pc) ==
  \E i \in 1..Len(initRuns) : initRuns[i].id = r /\ initRuns[i].pc = pc

C30_StateInv ==
  /\ dLoading => \E r \in 1..runCount : RunAt(r, "probe") \/ RunAt(r, "quizzes")
  /\ initRuns = <<>> => DashScreen \in {"error", "dashboard"}

C30_Step ==
  \A r \in 1..runCount :
    /\ RunAt(r, "probe") /\ ~RunAt(r, "probe")' /\ ~RunAt(r, "quizzes")' =>
         /\ ~dLoading'
         /\ DashScreen' = "error" /\ dError' = ConnectError
    /\ RunAt(r, "quizzes") /\ ~RunAt(r, "quizzes")' =>
         /\ ~dLoading'
         /\ \/ DashScreen' = "dashboard" /\ quizzes' = SelectActiveQuizzes
            \/ DashScreen' = "error" /\ dError' = QuizzesError

\* C30: while the spinner is shown a run of initializeDashboard awaits its
\* probe or its quizzes fetch; a run whose probe fails, and every run whose
\* quizzes fetch is answered, clears the loading flag and leaves the error
\* display or the quiz list; with every call answered in the end, the
\* spinner never stays forever.
C30_LoadingCleared ==
  /\ [](C30_StateInv)
  /\ [][C30_Step]_vars
  /\ (dLoading ~> ~dLoading)

C30_Witness ==
  /\ runCount = 2
  /\ 1 \in failedProbes
  /\ initRuns = <<>>
  /\ OpsOf(2) = InitSequence
  /\ DashScreen = "error"
  /\ dError = QuizzesError
  /\ "Error fetching user stats:" \in log

====
